---- MODULE Spec2Model ----
(***************************************************************************)
(* Model of the my-dashboard repository: the two serverless API routes     *)
(* (/api/anki and /api/goodreads), the ReadingProgress component logic     *)
(* that calls the Goodreads route and falls back to kobo.json, and the     *)
(* MusicGrid calendar.                                                     *)
(*                                                                         *)
(* The server runs one handler invocation at a time (route, pc).  An       *)
(* invocation is split at its await points: Invoke (code before the        *)
(* fetch), Fetch (the outbound request and the remote side's reply) and    *)
(* Respond (the code after the fetch, including the catch block).          *)
(***************************************************************************)
EXTENDS Integers, Sequences, FiniteSets, TLC

VARIABLES
    env,        \* import.meta.env: which Goodreads credentials are configured
    route,      \* the API route being served: "none", "anki" or "goodreads"
    pc,         \* position of the running handler
    requests,   \* outbound HTTP requests issued by the current invocation
    reply,      \* what the outbound fetch produced
    resp,       \* what the handler returned to its caller
    kobo,       \* src/data/kobo.json
    compPc,     \* position of the ReadingProgress frontmatter
    book,       \* ReadingProgress: let book
    source,     \* ReadingProgress: let source
    music,      \* src/data/music.json
    today,      \* the current date (a day number)
    first,      \* the date of the first cell of the calendar
    grid        \* the rendered calendar cells

server == <<env, route, pc, requests, reply, resp>>
reading == <<kobo, compPc, book, source>>
calendar == <<music, today, first, grid>>
vars == <<env, route, pc, requests, reply, resp, kobo, compPc, book, source,
          music, today, first, grid>>

(***************************************************************************)
(* Bounds of the model.                                                    *)
(***************************************************************************)
MaxCount == 2       \* largest review count AnkiConnect reports
MaxTokens == 4      \* longest Goodreads XML body, in tokens
MaxRequests == 3    \* cap on the request counter
MaxKobo == 2        \* longest kobo.json
MaxMusic == 2       \* longest music.json

(***************************************************************************)
(* JavaScript values that cross the JSON boundary.                         *)
(***************************************************************************)
JsUndefined == [tag |-> "undefined", n |-> 0, s |-> ""]
JsNull == [tag |-> "null", n |-> 0, s |-> ""]
JsNaN == [tag |-> "NaN", n |-> 0, s |-> ""]
JsInt(i) == [tag |-> "int", n |-> i, s |-> ""]
JsStr(t) == [tag |-> "str", n |-> 0, s |-> t]

\* JavaScript truthiness: undefined, null, NaN, 0 and "" are falsy.
Truthy(v) ==
    \/ v.tag = "int" /\ v.n # 0
    \/ v.tag = "str" /\ v.s # ""

\* a || b
JsOr(a, b) == IF Truthy(a) THEN a ELSE b

\* Response.ok: the status is in the range 200-299.
ResponseOk(status) == status \in 200..299

Statuses == {200, 401, 503}

NoReply == [kind |-> "none"]
NoResponse == [kind |-> "none"]
Thrown(msg) == [kind |-> "thrown", message |-> msg]

\* new Response(JSON.stringify(body), {status, headers})
JsonResponse(status, sMaxAge, swr, body) ==
    [kind |-> "response", status |-> status,
     contentType |-> "application/json",
     sMaxAge |-> sMaxAge, staleWhileRevalidate |-> swr, body |-> body]

NoError == [thrown |-> FALSE, message |-> ""]
Error(msg) == [thrown |-> TRUE, message |-> msg]

(***************************************************************************)
(* /api/anki                                                               *)
(***************************************************************************)
AnkiSMaxAge == 300
AnkiStale == 600
AnkiErrorSMaxAge == 60
AnkiErrorStale == 300

\* The replies the AnkiConnect endpoint can give to the POST: the fetch
\* rejects, or an HTTP response arrives whose body is not JSON, is the JSON
\* value null, or is an object {result, error}.
AnkiErrors == {JsUndefined, JsNull, JsStr(""), JsStr("collection is not available")}
AnkiResults == {JsUndefined, JsNull} \cup {JsInt(i) : i \in 0..MaxCount}
AnkiReplies ==
    {[kind |-> "reject", status |-> 0, json |-> "invalid",
      error |-> JsUndefined, result |-> JsUndefined]}
    \cup [kind : {"http"}, status : Statuses, json : {"invalid", "null"},
          error : {JsUndefined}, result : {JsUndefined}]
    \cup [kind : {"http"}, status : Statuses, json : {"object"},
          error : AnkiErrors, result : AnkiResults]

\* AnkiTry without the check of data.error.
AnkiTryIgnoreError(r) ==
    IF r.kind = "reject" THEN Error("fetch failed")
    ELSE IF ~ResponseOk(r.status) THEN Error("AnkiConnect is offline or unreachable")
    ELSE IF r.json = "invalid" THEN Error("Unexpected token in JSON")
    ELSE IF r.json = "null" THEN Error("Cannot read properties of null")
    ELSE NoError

\* The exception raised inside the try block, if any.
AnkiTry(r) ==
    IF r.kind = "reject" THEN Error("fetch failed")
    ELSE IF ~ResponseOk(r.status) THEN Error("AnkiConnect is offline or unreachable")
    ELSE IF r.json = "invalid" THEN Error("Unexpected token in JSON")
    ELSE IF r.json = "null" THEN Error("Cannot read properties of null")
    ELSE IF Truthy(r.error) THEN Error(r.error.s)
    ELSE NoError

\* AnkiSuccess without the `|| 0`.
AnkiSuccessRaw(r) ==
    JsonResponse(200, AnkiSMaxAge, AnkiStale, [today |-> r.result, error |-> FALSE])

\* The response built at the end of the try block.
AnkiSuccess(r) ==
    JsonResponse(200, AnkiSMaxAge, AnkiStale,
                 [today |-> JsOr(r.result, JsInt(0)), error |-> FALSE])

\* AnkiFailure with the status of the architecture document's catch block.
AnkiFailure503(e) ==
    JsonResponse(503, AnkiErrorSMaxAge, AnkiErrorStale,
                 [today |-> JsInt(0), error |-> TRUE, message |-> e.message])

\* AnkiFailure with the Cache-Control header of the success path.
AnkiFailureLongCache(e) ==
    JsonResponse(200, AnkiSMaxAge, AnkiStale,
                 [today |-> JsInt(0), error |-> TRUE, message |-> e.message])

\* The response built by the catch block.
AnkiFailure(e) ==
    JsonResponse(200, AnkiErrorSMaxAge, AnkiErrorStale,
                 [today |-> JsInt(0), error |-> TRUE, message |-> e.message])

\* AnkiGET without the catch block: the exception leaves the handler.
AnkiGETNoCatch(r) ==
    LET e == AnkiTry(r) IN IF e.thrown THEN Thrown(e.message) ELSE AnkiSuccess(r)

\* What GET returns once the fetch has settled with r.
AnkiGET(r) ==
    LET e == AnkiTry(r) IN IF e.thrown THEN AnkiFailure(e) ELSE AnkiSuccess(r)

\* AnkiAfterFetch with a retry: a failed call goes back to the fetch.
AnkiAfterFetchRetry(r) == IF AnkiTry(r).thrown THEN "fetch" ELSE "done"

\* Where the handler goes after the code following the fetch has run: it
\* returns, on the try path and on the catch path alike.
AnkiAfterFetch(r) == "done"

Idle == pc \in {"idle", "done"}

AnkiInvoke ==
    /\ Idle
    /\ route' = "anki"
    /\ pc' = "fetch"
    /\ requests' = 0
    /\ reply' = NoReply
    /\ resp' = NoResponse
    /\ UNCHANGED <<env, reading, calendar>>

AnkiFetch ==
    /\ route = "anki"
    /\ pc = "fetch"
    /\ requests < MaxRequests
    /\ \E r \in AnkiReplies : reply' = r
    /\ requests' = requests + 1
    /\ pc' = "respond"
    /\ UNCHANGED <<env, route, resp, reading, calendar>>

AnkiRespond ==
    /\ route = "anki"
    /\ pc = "respond"
    /\ pc' = AnkiAfterFetch(reply)
    /\ resp' = IF pc' = "done" THEN AnkiGET(reply) ELSE resp
    /\ UNCHANGED <<env, route, requests, reply, reading, calendar>>

(***************************************************************************)
(* /api/goodreads                                                          *)
(***************************************************************************)
GoodreadsSMaxAge == 600
GoodreadsStale == 1800
GoodreadsErrorSMaxAge == 60
GoodreadsErrorStale == 300

Credentials == {"", "configured"}
Environments ==
    [GOODREADS_KEY : Credentials, GOODREADS_SECRET : Credentials,
     GOODREADS_USER_ID : Credentials]

\* CredentialsMissing without the check of the user id.
CredentialsMissingKeyOnly(e) ==
    \/ e.GOODREADS_KEY = ""
    \/ e.GOODREADS_SECRET = ""

\* !GOODREADS_KEY || !GOODREADS_SECRET || !GOODREADS_USER_ID
CredentialsMissing(e) ==
    \/ e.GOODREADS_KEY = ""
    \/ e.GOODREADS_SECRET = ""
    \/ e.GOODREADS_USER_ID = ""

\* The XML body as the handler's regular expressions see it: a sequence of
\* the pieces they look for.
\*   shelf      <shelf name="currently-reading"   (text = the shelf name)
\*   /review    </review>
\*   title      <title><![CDATA[text]]></title>
\*   num_pages  <num_pages>chars</num_pages>
Titles == {"Dune", "Emma"}
PageTexts == {<<>>, <<"4", "1", "2">>, <<"4", "x">>, <<"x", "4">>}
Tokens ==
    [tag : {"shelf"}, text : {"currently-reading", "read"}, chars : {<<>>}]
    \cup [tag : {"/review"}, text : {""}, chars : {<<>>}]
    \cup [tag : {"title"}, text : Titles, chars : {<<>>}]
    \cup [tag : {"num_pages"}, text : {""}, chars : PageTexts]

RECURSIVE SeqsUpTo(_, _)
SeqsUpTo(S, n) ==
    IF n = 0 THEN {<<>>}
    ELSE LET shorter == SeqsUpTo(S, n - 1)
         IN shorter \cup {Append(q, x) : q \in {p \in shorter : Len(p) = n - 1}, x \in S}

GoodreadsReplies ==
    {[kind |-> "reject", status |-> 0, xml |-> <<>>]}
    \cup [kind : {"http"}, status : {200, 503}, xml : SeqsUpTo(Tokens, MaxTokens)]

Digits == {"0", "1", "2", "3", "4", "5", "6", "7", "8", "9"}
DigitValue(c) ==
    CASE c = "0" -> 0 [] c = "1" -> 1 [] c = "2" -> 2 [] c = "3" -> 3 [] c = "4" -> 4
      [] c = "5" -> 5 [] c = "6" -> 6 [] c = "7" -> 7 [] c = "8" -> 8 [] c = "9" -> 9

RECURSIVE LeadingDigits(_)
LeadingDigits(chars) ==
    IF chars = <<>> \/ Head(chars) \notin Digits THEN <<>>
    ELSE <<Head(chars)>> \o LeadingDigits(Tail(chars))

RECURSIVE DecimalValue(_)
DecimalValue(ds) ==
    IF ds = <<>> THEN 0
    ELSE 10 * DecimalValue(SubSeq(ds, 1, Len(ds) - 1)) + DigitValue(ds[Len(ds)])

\* parseInt: the number spelled by the leading digits, NaN when there is none.
ParseInt(chars) ==
    LET ds == LeadingDigits(chars)
    IN IF ds = <<>> THEN JsNaN ELSE JsInt(DecimalValue(ds))

\* JSON.stringify writes NaN as null.
Stringify(v) == IF v.tag = "NaN" THEN JsNull ELSE v

Min(S) == CHOOSE x \in S : \A y \in S : x <= y

NoMatch == [found |-> FALSE, seg |-> <<>>]

\* xmlText.match(/<shelf name="currently-reading"[\s\S]*?<\/review>/): from
\* the first currently-reading shelf tag that has a </review> after it to the
\* nearest such </review>.
CurrentlyReadingMatch(xml) ==
    LET starts == {i \in 1..Len(xml) :
                      /\ xml[i].tag = "shelf"
                      /\ xml[i].text = "currently-reading"
                      /\ \E j \in (i + 1)..Len(xml) : xml[j].tag = "/review"}
    IN IF starts = {} THEN NoMatch
       ELSE LET i == Min(starts)
                j == Min({k \in (i + 1)..Len(xml) : xml[k].tag = "/review"})
            IN [found |-> TRUE, seg |-> SubSeq(xml, i, j)]

\* seg.match(/<tag>(.*?)<\/tag>/): the first piece of that tag in seg.
FirstOf(seg, tag) ==
    LET at == {i \in 1..Len(seg) : seg[i].tag = tag}
    IN IF at = {} THEN NoMatch ELSE [found |-> TRUE, seg |-> <<seg[Min(at)]>>]

\* The exception raised inside the try block, if any.
GoodreadsTry(r) ==
    IF r.kind = "reject" THEN Error("fetch failed")
    ELSE IF ~ResponseOk(r.status)
         THEN Error("Goodreads API error: " \o ToString(r.status))
    ELSE NoError

\* The response of the credentials check.
GoodreadsNoCredentials ==
    JsonResponse(200, GoodreadsSMaxAge, GoodreadsStale,
                 [error |-> TRUE, message |-> "Goodreads credentials not configured",
                  book |-> JsNull])

\* GoodreadsNoBook with the error flag of the failure responses.
GoodreadsNoBookAsError ==
    JsonResponse(200, GoodreadsSMaxAge, GoodreadsStale,
                 [error |-> TRUE, book |-> JsNull, message |-> "No currently reading book"])

\* The response when no currently-reading review is found.
GoodreadsNoBook ==
    JsonResponse(200, GoodreadsSMaxAge, GoodreadsStale,
                 [error |-> FALSE, book |-> JsNull, message |-> "No currently reading book"])

\* BookOf with progress taken from the page count.
BookOfWithProgress(seg) ==
    LET titleMatch == FirstOf(seg, "title")
        pagesMatch == FirstOf(seg, "num_pages")
        pages == IF pagesMatch.found THEN ParseInt(pagesMatch.seg[1].chars) ELSE JsInt(0)
    IN [title |-> IF titleMatch.found THEN titleMatch.seg[1].text ELSE "Unknown Book",
        progress |-> IF pages.tag = "int" THEN pages.n ELSE 0,
        pages |-> Stringify(pages),
        current |-> TRUE]

\* The Book built from the matched review.
BookOf(seg) ==
    LET titleMatch == FirstOf(seg, "title")
        pagesMatch == FirstOf(seg, "num_pages")
    IN [title |-> IF titleMatch.found THEN titleMatch.seg[1].text ELSE "Unknown Book",
        progress |-> 0,
        pages |-> Stringify(IF pagesMatch.found
                              THEN ParseInt(pagesMatch.seg[1].chars) ELSE JsInt(0)),
        current |-> TRUE]

\* The response built at the end of the try block.
GoodreadsSuccess(r) ==
    LET m == CurrentlyReadingMatch(r.xml)
    IN IF ~m.found THEN GoodreadsNoBook
       ELSE JsonResponse(200, GoodreadsSMaxAge, GoodreadsStale,
                         [error |-> FALSE, book |-> BookOf(m.seg)])

\* The response built by the catch block.
GoodreadsFailure(e) ==
    JsonResponse(200, GoodreadsErrorSMaxAge, GoodreadsErrorStale,
                 [error |-> TRUE, message |-> e.message, book |-> JsNull])

\* What GET returns once the fetch has settled with r.
GoodreadsGET(r) ==
    LET e == GoodreadsTry(r)
    IN IF e.thrown THEN GoodreadsFailure(e) ELSE GoodreadsSuccess(r)

\* Where the handler goes after the code following the fetch has run.
GoodreadsAfterFetch(r) == "done"

\* The handler up to its first await: the credentials check, and the signing
\* of the request when the credentials are there.
GoodreadsCall ==
    /\ Idle
    /\ route' = "goodreads"
    /\ requests' = 0
    /\ reply' = NoReply
    /\ IF CredentialsMissing(env)
       THEN pc' = "done" /\ resp' = GoodreadsNoCredentials
       ELSE pc' = "fetch" /\ resp' = NoResponse
    /\ UNCHANGED env

GoodreadsInvoke ==
    /\ GoodreadsCall
    /\ UNCHANGED <<reading, calendar>>

GoodreadsFetch ==
    /\ route = "goodreads"
    /\ pc = "fetch"
    /\ requests < MaxRequests
    /\ \E r \in GoodreadsReplies : reply' = r
    /\ requests' = requests + 1
    /\ pc' = "respond"
    /\ UNCHANGED <<env, route, resp, reading, calendar>>

GoodreadsRespond ==
    /\ route = "goodreads"
    /\ pc = "respond"
    /\ pc' = GoodreadsAfterFetch(reply)
    /\ resp' = IF pc' = "done" THEN GoodreadsGET(reply) ELSE resp
    /\ UNCHANGED <<env, route, requests, reply, reading, calendar>>

(***************************************************************************)
(* The API routes on their own.                                            *)
(***************************************************************************)
NoBook == [tag |-> "null"]

Init ==
    /\ env \in Environments
    /\ route = "none"
    /\ pc = "idle"
    /\ requests = 0
    /\ reply = NoReply
    /\ resp = NoResponse
    /\ kobo = <<>>
    /\ compPc = "idle"
    /\ book = NoBook
    /\ source = JsStr("")
    /\ music = <<>>
    /\ today = 0
    /\ first = 0
    /\ grid = <<>>

Next ==
    \/ AnkiInvoke
    \/ AnkiFetch
    \/ AnkiRespond
    \/ GoodreadsInvoke
    \/ GoodreadsFetch
    \/ GoodreadsRespond

Spec == Init /\ [][Next]_vars

(***************************************************************************)
(* What the remote side did, read off the inputs of the invocation.        *)
(***************************************************************************)
AnkiDone == route = "anki" /\ pc = "done"
GoodreadsDone == route = "goodreads" /\ pc = "done"

\* fetch rejected, non-success status, body not JSON, or body with an error
AnkiCallFailed ==
    \/ reply.kind = "reject"
    \/ ~ResponseOk(reply.status)
    \/ reply.json = "invalid"
    \/ Truthy(reply.error)

\* HTTP ok, JSON object body, no error
AnkiCallSucceeded ==
    /\ reply.kind = "http"
    /\ ResponseOk(reply.status)
    /\ reply.json = "object"
    /\ ~Truthy(reply.error)

\* the outbound request to Goodreads rejected or came back non-success
GoodreadsRequestFailed ==
    /\ ~CredentialsMissing(env)
    /\ (reply.kind = "reject" \/ ~ResponseOk(reply.status))

GoodreadsLookupFailed == CredentialsMissing(env) \/ GoodreadsRequestFailed

GoodreadsRequestSucceeded ==
    /\ ~CredentialsMissing(env)
    /\ reply.kind = "http"
    /\ ResponseOk(reply.status)

HasCurrentShelf(xml) ==
    \E i \in 1..Len(xml) : xml[i].tag = "shelf" /\ xml[i].text = "currently-reading"

IsNoActiveBook(r) ==
    r.kind = "response" /\ r.body.error = FALSE /\ r.body.book = JsNull

(***************************************************************************)
(* Claims about the API routes.                                            *)
(***************************************************************************)

C3_NoActiveBook ==
    GoodreadsDone =>
        /\ (GoodreadsRequestSucceeded /\ ~HasCurrentShelf(reply.xml)) =>
               (resp.kind = "response" /\ resp.status = 200 /\ IsNoActiveBook(resp))
        /\ GoodreadsLookupFailed => ~IsNoActiveBook(resp)

\* C3 witness: Goodreads answered 200 with reviews on another shelf only.
C3_Witness ==
    /\ GoodreadsDone
    /\ GoodreadsRequestSucceeded
    /\ Len(reply.xml) = MaxTokens
    /\ ~HasCurrentShelf(reply.xml)
    /\ \E i \in 1..Len(reply.xml) : reply.xml[i].tag = "shelf"
    /\ IsNoActiveBook(resp)

C6_NoRetry == requests <= 1

\* C6 witness: an invocation has ended after its one request failed.
C6_Witness ==
    /\ pc = "done"
    /\ requests = 1
    /\ \/ route = "anki" /\ AnkiCallFailed
       \/ route = "goodreads" /\ GoodreadsRequestFailed

\* C7 as stated: every Goodreads response carries s-maxage=600 and every
\* Anki response s-maxage=300, on success and on failure alike.
C7_SameCacheOnEveryPath ==
    pc = "done" =>
        /\ route = "goodreads" => resp.sMaxAge = 600
        /\ route = "anki" => resp.sMaxAge = 300

\* C7 amended: the Cache-Control header is fixed per response path.  The
\* Goodreads route sends s-maxage=600, except on the responses of its catch
\* block (the outbound request rejected or came back non-success), which
\* carry s-maxage=60; the Anki route sends s-maxage=300 on success and
\* s-maxage=60 on every failure response.
C7_CachePerPath ==
    pc = "done" =>
        /\ route = "goodreads" =>
               resp.sMaxAge = (IF GoodreadsRequestFailed THEN 60 ELSE 600)
        /\ route = "anki" =>
               resp.sMaxAge = (IF AnkiCallSucceeded THEN 300 ELSE 60)

\* C7 witness: a failure response of the Anki route.
C7_Witness == AnkiDone /\ AnkiCallFailed /\ resp.sMaxAge = 60

C11_ErrorMeansZero ==
    AnkiDone =>
        /\ resp.kind = "response"
        /\ resp.body.error = TRUE => resp.body.today = JsInt(0)
        /\ ( /\ reply.kind = "http"
             /\ ResponseOk(reply.status)
             /\ reply.json = "object"
             /\ reply.error.tag = "str"
             /\ reply.error.s # "" ) =>
               (resp.body.error = TRUE /\ resp.body.today = JsInt(0))

\* C11 witness: AnkiConnect answered 200 with a non-empty error next to a
\* non-zero result, and the handler answered with the error flag set.
C11_Witness ==
    /\ AnkiDone
    /\ reply.kind = "http" /\ reply.status = 200 /\ reply.json = "object"
    /\ reply.error = JsStr("collection is not available")
    /\ reply.result = JsInt(1)
    /\ resp.body.error = TRUE

AllCredentialsPresent ==
    /\ env.GOODREADS_KEY # ""
    /\ env.GOODREADS_SECRET # ""
    /\ env.GOODREADS_USER_ID # ""

\* C12: when any of the three Goodreads credentials is missing, the handler
\* returns its error-flagged payload (error true, book null) without issuing
\* an outbound request; a request to Goodreads is issued only when all three
\* credentials are present.
C12_NoRequestWithoutCredentials ==
    route = "goodreads" =>
        /\ ~AllCredentialsPresent =>
               /\ requests = 0
               /\ pc = "done"
               /\ reply = NoReply
               /\ resp.kind = "response"
               /\ resp.body.error = TRUE
               /\ resp.body.book = JsNull
        /\ (requests > 0 \/ pc \in {"fetch", "respond"}) => AllCredentialsPresent

\* C12 witness: only the user id is missing, and the handler has returned
\* the error payload without a request.
C12_Witness ==
    /\ GoodreadsDone
    /\ env.GOODREADS_KEY # "" /\ env.GOODREADS_SECRET # ""
    /\ env.GOODREADS_USER_ID = ""
    /\ requests = 0
    /\ resp.body.error = TRUE /\ resp.body.book = JsNull

(***************************************************************************)
(* ReadingProgress.astro: the frontmatter that resolves the book to show.  *)
(***************************************************************************)
JsObject(v) == [tag |-> "object", value |-> v]

KoboBooks ==
    {[title |-> "Example Book", progress |-> 0, pages |-> JsInt(300), current |-> TRUE],
     [title |-> "Dune", progress |-> 67, pages |-> JsInt(412), current |-> FALSE],
     [title |-> "Emma", progress |-> 10, pages |-> JsInt(200), current |-> TRUE]}

\* kobo.find(b => b.current)
FindCurrent(k) ==
    LET at == {i \in 1..Len(k) : k[i].current}
    IN IF at = {} THEN [tag |-> "undefined"] ELSE JsObject(k[Min(at)])

RouteUnreachable == [kind |-> "reject"]

\* The try block: book and source after the call to /api/goodreads, where
\* res is the route's response, or RouteUnreachable when the fetch rejects.
ReadingTry(res) ==
    IF res.kind = "response" /\ ResponseOk(res.status)
    THEN [book |-> JsObject(res.body), source |-> JsStr("Goodreads")]
    ELSE [book |-> NoBook, source |-> JsStr("")]

\* The whole frontmatter: the try block, then the fallback to kobo.json
\* when book is still falsy.
ReadingProgress(res, k) ==
    LET t == ReadingTry(res)
    IN IF t.book.tag = "object" THEN t
       ELSE LET b == FindCurrent(k)
            IN [book |-> b,
                source |-> IF b.tag = "object" THEN JsStr("Kobo (cached)") ELSE JsNull]

ReadingIdle == compPc \in {"idle", "rendered"}

\* The component starts and its fetch reaches the route.
ReadingStart ==
    /\ ReadingIdle
    /\ GoodreadsCall
    /\ compPc' = "fetching"
    /\ book' = NoBook
    /\ source' = JsStr("")
    /\ UNCHANGED <<kobo, calendar>>

\* The component starts and its fetch of the route rejects.
ReadingFetchRejects ==
    /\ ReadingIdle
    /\ Idle
    /\ route' = "none"
    /\ pc' = "idle"
    /\ requests' = 0
    /\ reply' = NoReply
    /\ resp' = NoResponse
    /\ LET r == ReadingProgress(RouteUnreachable, kobo)
       IN book' = r.book /\ source' = r.source
    /\ compPc' = "rendered"
    /\ UNCHANGED <<env, kobo, calendar>>

\* The route has answered: the rest of the frontmatter runs.
ReadingResolve ==
    /\ compPc = "fetching"
    /\ route = "goodreads"
    /\ pc = "done"
    /\ LET r == ReadingProgress(resp, kobo)
       IN book' = r.book /\ source' = r.source
    /\ compPc' = "rendered"
    /\ UNCHANGED <<server, kobo, calendar>>

InitReading ==
    /\ env \in Environments
    /\ route = "none"
    /\ pc = "idle"
    /\ requests = 0
    /\ reply = NoReply
    /\ resp = NoResponse
    /\ kobo \in SeqsUpTo(KoboBooks, MaxKobo)
    /\ compPc = "idle"
    /\ book = NoBook
    /\ source = JsStr("")
    /\ music = <<>>
    /\ today = 0
    /\ first = 0
    /\ grid = <<>>

NextReading ==
    \/ ReadingStart
    \/ ReadingFetchRejects
    \/ GoodreadsFetch
    \/ GoodreadsRespond
    \/ ReadingResolve

SpecReading == InitReading /\ [][NextReading]_vars

Rendered == compPc = "rendered"

\* The remote lookup failed: the route could not be reached, the credentials
\* are missing, or the request to Goodreads rejected or came back
\* non-success.
ReadingLookupFailed == route = "none" \/ GoodreadsLookupFailed

HasCurrent(k) == \E i \in 1..Len(k) : k[i].current

\* C2: for every failure of the remote reading-progress lookup (network
\* error, non-success status from Goodreads, missing credentials) the
\* resolver ends with book set to the kobo.json entry whose current flag is
\* true.
C2_FallbackOnFailure ==
    (Rendered /\ ReadingLookupFailed /\ HasCurrent(kobo)) =>
        /\ book.tag = "object"
        /\ \E i \in 1..Len(kobo) : kobo[i].current /\ book.value = kobo[i]

\* C4: the source label is "Goodreads" exactly when the displayed book came
\* from the remote Goodreads lookup and "Kobo (cached)" exactly when it came
\* from kobo.json; it is never "Goodreads" when the remote lookup failed.
C4_SourceLabel ==
    Rendered =>
        /\ source = JsStr("Goodreads") <=>
               /\ route = "goodreads"
               /\ GoodreadsRequestSucceeded
               /\ book = JsObject(resp.body)
        /\ source = JsStr("Kobo (cached)") <=>
               /\ book.tag = "object"
               /\ \E i \in 1..Len(kobo) : kobo[i].current /\ book.value = kobo[i]
        /\ ReadingLookupFailed => source # JsStr("Goodreads")

(***************************************************************************)
(* MusicGrid.astro: the calendar of music ideas.  The component file is    *)
(* not among the sources; it is modelled from its description: a grid of   *)
(* GridDays consecutive dates that contains the current date, the current  *)
(* date highlighted, dates without an entry shown as a dash.               *)
(***************************************************************************)
GridDays == 30

\* The em dash shown for an empty day.
Placeholder == "-"

MusicDates == {1, 30, 31, 60}
MusicIdeas ==
    [date : MusicDates, idea : {"Ambient drone + field recordings", "Tape loops"},
     link : {"https://open.spotify.com/track/abc123"}]
TodayDates == {30, 31}

CellOf(m, t, d) ==
    LET at == {i \in 1..Len(m) : m[i].date = d}
    IN [date |-> d, isToday |-> (d = t),
        text |-> IF at = {} THEN Placeholder ELSE m[Min(at)].idea]

\* MusicGrid with one cell per entry of music.json instead of one per date.
MusicGridByEntries(m, t, f) ==
    [i \in 1..Len(m) |-> CellOf(m, t, m[i].date)]

\* One cell per date of the GridDays days from f on.
MusicGrid(m, t, f) ==
    [i \in 1..GridDays |-> CellOf(m, t, f + i - 1)]

\* The page is rendered: the grid is built from music.json and the date.
RenderGrid ==
    /\ grid = <<>>
    /\ grid' = MusicGrid(music, today, first)
    /\ UNCHANGED <<server, reading, music, today, first>>

InitGrid ==
    /\ env = [GOODREADS_KEY |-> "", GOODREADS_SECRET |-> "", GOODREADS_USER_ID |-> ""]
    /\ route = "none"
    /\ pc = "idle"
    /\ requests = 0
    /\ reply = NoReply
    /\ resp = NoResponse
    /\ kobo = <<>>
    /\ compPc = "idle"
    /\ book = NoBook
    /\ source = JsStr("")
    /\ music \in SeqsUpTo(MusicIdeas, MaxMusic)
    /\ today \in TodayDates
    /\ first \in (today - GridDays + 1)..today
    /\ grid = <<>>

NextGrid == RenderGrid

SpecGrid == InitGrid /\ [][NextGrid]_vars

\* C9: for any list of dated music entries and any current date, the grid
\* marks exactly one cell as "today", and every grid date absent from the
\* list is rendered as the placeholder.
C9_Grid ==
    grid # <<>> =>
        /\ Cardinality({i \in 1..Len(grid) : grid[i].isToday}) = 1
        /\ \A i \in 1..Len(grid) :
               /\ grid[i].isToday <=> grid[i].date = today
               /\ (\A j \in 1..Len(music) : music[j].date # grid[i].date) =>
                      grid[i].text = Placeholder

\* C9 witness: a grid rendered from a list with one date inside the grid and
\* one outside it.
C9_Witness ==
    /\ Len(grid) = GridDays
    /\ \E j \in 1..Len(music) : music[j].date \in first..(first + GridDays - 1)
    /\ \E j \in 1..Len(music) : music[j].date \notin first..(first + GridDays - 1)
    /\ \E i \in 1..Len(grid) : grid[i].text = Placeholder
    /\ \E i \in 1..Len(grid) : grid[i].text # Placeholder

====
